---- MODULE Spec2Model ----
(***************************************************************************)
(* A model of the pipedreams library: permutations (perm.rs), the flat     *)
(* square matrix (matrix.rs), pipe dreams with the start and mitosis       *)
(* operators and the reduced-dream generator (dream.rs), and the monomial  *)
(* and Schubert assembly (poly.rs).                                        *)
(*                                                                         *)
(* Indices are zero-based as in the source; a Vec is a TLA+ sequence, so   *)
(* element k of a Vec v is v[k + 1].  A panic (index out of range, usize   *)
(* underflow, failed assert) is an explicit outcome of the operation:      *)
(* a `panic` field in its result or a companion `_panics` predicate.       *)
(***************************************************************************)
EXTENDS Integers, Sequences, FiniteSets, TLC

\* Largest permutation length explored by the generator and the word derivation.
MaxN == 4
\* Largest dimension of the arbitrary tile patterns given to Dream::mitosis.
MaxDim == 3

----------------------------------------------------------------------------
(* dream.rs: Tile *)

Elbow == "Elbow"
Cross == "Cross"
Tile == {Elbow, Cross}
Tile_default == Elbow

----------------------------------------------------------------------------
(* Helpers over sequences and sets of naturals *)

SetMin(S) == CHOOSE x \in S : \A y \in S : x <= y

RECURSIVE SumSeq(_)
SumSeq(s) == IF Len(s) = 0 THEN 0 ELSE Head(s) + SumSeq(Tail(s))

Reverse(s) == [k \in 1..Len(s) |-> s[Len(s) + 1 - k]]

----------------------------------------------------------------------------
(* perm.rs *)

\* Perm::new accepts v exactly when v sorted is the range 0..v.len().
Perm_new_ok(v) ==
    /\ \A k \in 1..Len(v) : v[k] \in 0..(Len(v) - 1)
    /\ \A a, b \in 1..Len(v) : v[a] = v[b] => a = b

Perm_len(p) == Len(p)

\* impl Index<usize> for Perm
Perm_index(p, i) == p[i + 1]

Perm_lehmer(p) ==
    [k \in 1..Perm_len(p) |->
        Cardinality({j \in (k - 1) + 1 .. Perm_len(p) - 1 :
                        Perm_index(p, j) < Perm_index(p, k - 1)})]

\* Perm_long building the ascending range instead of the reversed one.
Perm_long_ascending(n) == [k \in 1..n |-> k - 1]

Perm_long(n) == [k \in 1..n |-> n - k]

\* Perm_compose_with applying the factors in the other order, other(self(_)).
Perm_compose_with_swapped(self, other) ==
    IF Len(self) # Len(other)
    THEN [panic |-> TRUE, perm |-> << >>]
    ELSE [panic |-> FALSE, perm |-> [k \in 1..Len(self) |-> other[self[k] + 1]]]

\* Perm::compose_with: `assert_eq!(self.len(), other.len())` panics on
\* unequal lengths; otherwise inner[i] = self[other[i]].
Perm_compose_with(self, other) ==
    IF Perm_len(self) # Perm_len(other)
    THEN [panic |-> TRUE, perm |-> << >>]
    ELSE [panic |-> FALSE,
          perm |-> [k \in 1..Perm_len(self) |->
                      Perm_index(self, Perm_index(other, k - 1))]]

\* impl Mul for &Perm
Perm_mul(self, rhs) == Perm_compose_with(self, rhs)

----------------------------------------------------------------------------
(* matrix.rs: SqMat<T>, a flat vector with a dimension *)

SqMat_new(dim) == [inner |-> [k \in 1..(dim * dim) |-> Tile_default], dim |-> dim]

SqMat_dim(m) == m.dim

\* The bounds check of Vec indexing behind Index<(usize, usize)> / IndexMut.
SqMat_in_bounds(m, i, j) == j + i * m.dim < Len(m.inner)

SqMat_index(m, i, j) == m.inner[j + i * m.dim + 1]

SqMat_index_mut(m, i, j, t) == [m EXCEPT !.inner[j + i * m.dim + 1] = t]

----------------------------------------------------------------------------
(* dream.rs: Dream *)

Dream_dim(D) == SqMat_dim(D.tiles)

\* impl Index<(usize, usize)> for Dream
Dream_index(D, i, j) == SqMat_index(D.tiles, i, j)

Dream_start_panics(D, i) ==
    \E j \in 0..(Dream_dim(D) - 1) : ~SqMat_in_bounds(D.tiles, i, j)

Dream_start(D, i) ==
    SetMin({j \in 0..(Dream_dim(D) - 1) : Dream_index(D, i, j) = Elbow}
              \cup {Dream_dim(D)})

\* IsLadderPosition with the column of the first elbow included.
IsLadderPosition_inclusive(D, i, start, j) ==
    j <= start /\ D.tiles.inner[j + (i + 1) * D.tiles.dim + 1] # Cross

\* The filter of the loop header in Dream::mitosis; `&&` short-circuits.
IsLadderPosition(D, i, start, j) ==
    j < start /\ Dream_index(D, i + 1, j) # Cross

\* LadderMove that clears the upper tile but never sets the lower one.
LadderMove_no_push(tiles, i, j) ==
    IF tiles.inner[j + i * tiles.dim + 1] = Cross
          /\ tiles.inner[j + (i + 1) * tiles.dim + 1] = Elbow
    THEN [tiles EXCEPT !.inner[j + i * tiles.dim + 1] = Elbow]
    ELSE tiles

\* One iteration of the inner loop `for j in 0..p`.
LadderMove(tiles, i, j) ==
    IF SqMat_index(tiles, i, j) = Cross /\ SqMat_index(tiles, i + 1, j) = Elbow
    THEN SqMat_index_mut(SqMat_index_mut(tiles, i, j, Elbow), i + 1, j, Cross)
    ELSE tiles

RECURSIVE LadderFrom(_, _, _, _)
LadderFrom(tiles, i, j, p) ==
    IF j >= p THEN tiles ELSE LadderFrom(LadderMove(tiles, i, j), i, j + 1, p)

\* The body of the outer loop: the child pushed for ladder position p.
Offspring(D, i, p) ==
    [tiles |-> LadderFrom(SqMat_index_mut(D.tiles, i, p, Elbow), i, 0, p)]

RECURSIVE OffspringFrom(_, _, _, _)
OffspringFrom(D, i, start, j) ==
    IF j >= Dream_dim(D) THEN << >>
    ELSE (IF IsLadderPosition(D, i, start, j) THEN << Offspring(D, i, j) >> ELSE << >>)
            \o OffspringFrom(D, i, start, j + 1)

\* Dream::mitosis panics when start reads outside the vector or when the
\* filter reaches self[(i + 1, j)] outside the vector.
Dream_mitosis_panics(D, i) ==
    \/ Dream_start_panics(D, i)
    \/ \E j \in 0..(Dream_dim(D) - 1) :
          j < Dream_start(D, i) /\ ~SqMat_in_bounds(D.tiles, i + 1, j)

Dream_mitosis(D, i) ==
    IF Dream_mitosis_panics(D, i)
    THEN [panic |-> TRUE, offspring |-> << >>]
    ELSE [panic |-> FALSE, offspring |-> OffspringFrom(D, i, Dream_start(D, i), 0)]

\* LongCross with the antidiagonal included.
LongCross_inclusive(n, i, j) == i + j <= n - 1

\* The condition guarding the write in Dream::long.
LongCross(n, i, j) == i + j < n - 1

Dream_long(n) ==
    [tiles |->
        [inner |-> [k \in 1..(n * n) |->
                        IF LongCross(n, (k - 1) \div n, (k - 1) % n)
                        THEN Cross ELSE Tile_default],
         dim |-> n]]

\* A write of Dream::long outside the vector.
Dream_long_panics(n) ==
    \E i, j \in 0..(n - 1) : LongCross(n, i, j) /\ ~(j + i * n < n * n)

\* fn mitosis(dreams, i): the children of every dream, in order.
RECURSIVE mitosis(_, _)
mitosis(dreams, i) ==
    IF Len(dreams) = 0 THEN [panic |-> FALSE, offspring |-> << >>]
    ELSE LET h == Dream_mitosis(Head(dreams), i)
             t == mitosis(Tail(dreams), i)
         IN [panic |-> h.panic \/ t.panic,
             offspring |-> IF h.panic \/ t.panic THEN << >>
                           ELSE h.offspring \o t.offspring]

\* RevCode that forgets the reversal.
RevCode_forward(c) == c

\* `c.iter().rev()` in lex_first_reduced_word.
RevCode(c) == Reverse(c)

\* Run that forgets the reversal of the range: i-ci, ..., i-1.
Run_ascending(i, ci) == [k \in 1..ci |-> i - ci + k - 1]

\* `(i - ci..i).rev()`: the run i-1, i-2, ..., i-ci.
Run(i, ci) == [k \in 1..ci |-> i - k]

RECURSIVE WordFrom(_, _)
WordFrom(rc, i) ==
    IF i >= Len(rc) THEN << >> ELSE Run(i, rc[i + 1]) \o WordFrom(rc, i + 1)

\* `i - ci` underflows usize.
lex_first_reduced_word_panics(p) ==
    LET rc == RevCode(Perm_lehmer(p))
    IN \E i \in 0..(Len(rc) - 1) : i - rc[i + 1] < 0

lex_first_reduced_word(p) == WordFrom(RevCode(Perm_lehmer(p)), 0)

----------------------------------------------------------------------------
(* poly.rs *)

\* PowersAfter whose new entries start at 1 before the increment.
RECURSIVE PowersAfter_insert_one(_, _)
PowersAfter_insert_one(D, k) ==
    IF k = 0 THEN << >>
    ELSE LET n == D.tiles.dim
             i == (k - 1) \div n
             prev == PowersAfter_insert_one(D, k - 1)
         IN IF D.tiles.inner[k] = Cross
            THEN [r \in (DOMAIN prev) \cup {i} |->
                    IF r = i THEN (IF i \in DOMAIN prev THEN prev[i] ELSE 1) + 1
                    ELSE prev[r]]
            ELSE prev

\* The HashMap of Monomial::from after visiting the first k cells in
\* row-major order: a function from the rows entered so far to their counts.
RECURSIVE PowersAfter(_, _)
PowersAfter(D, k) ==
    IF k = 0 THEN << >>
    ELSE LET n == Dream_dim(D)
             i == (k - 1) \div n
             j == (k - 1) % n
             prev == PowersAfter(D, k - 1)
         IN IF Dream_index(D, i, j) = Cross
            THEN [r \in (DOMAIN prev) \cup {i} |->
                    IF r = i THEN (IF i \in DOMAIN prev THEN prev[i] ELSE 0) + 1
                    ELSE prev[r]]
            ELSE prev

PairLess(a, b) == a[1] < b[1] \/ (a[1] = b[1] /\ a[2] < b[2])

\* `sort_unstable` on the (row, count) pairs collected from the map.
RECURSIVE SortPairs(_)
SortPairs(S) ==
    IF S = {} THEN << >>
    ELSE LET m == CHOOSE a \in S : \A b \in S \ {a} : PairLess(a, b)
         IN << m >> \o SortPairs(S \ {m})

\* impl From<&Dream> for Monomial: the `powers` vector.
Monomial_from(D) ==
    LET powers == PowersAfter(D, Dream_dim(D) * Dream_dim(D))
    IN SortPairs({<< r, powers[r] >> : r \in DOMAIN powers})

\* fn elem inside impl Display for Monomial
Monomial_elem(i, p) ==
    IF p = 0 THEN "1"
    ELSE IF p = 1 THEN "x_" \o ToString(i)
    ELSE "x_" \o ToString(i) \o "^" \o ToString(p)

RECURSIVE JoinElems(_)
JoinElems(rest) ==
    IF Len(rest) = 0 THEN ""
    ELSE "*" \o Monomial_elem(Head(rest)[1], Head(rest)[2]) \o JoinElems(Tail(rest))

\* impl Display for Monomial
Monomial_fmt(powers) ==
    IF Len(powers) > 0
    THEN Monomial_elem(Head(powers)[1], Head(powers)[2]) \o JoinElems(Tail(powers))
    ELSE "1"

\* KeepMonomial that keeps the empty monomial too.
KeepMonomial_always(mono) == TRUE

\* The test `!mono.powers().is_empty()` of Schubert::from_dreams.
KeepMonomial(mono) == Len(mono) # 0

\* Schubert::from_dreams: the `parts` vector.
RECURSIVE Schubert_from_dreams(_)
Schubert_from_dreams(dreams) ==
    IF Len(dreams) = 0 THEN << >>
    ELSE LET mono == Monomial_from(Head(dreams))
         IN (IF KeepMonomial(mono) THEN << mono >> ELSE << >>)
                \o Schubert_from_dreams(Tail(dreams))

RECURSIVE JoinParts(_)
JoinParts(rest) ==
    IF Len(rest) = 0 THEN ""
    ELSE " + " \o Monomial_fmt(Head(rest)) \o JoinParts(Tail(rest))

\* The polynomial written after "S_<perm> = " by impl Display for Schubert.
Schubert_fmt_body(parts) ==
    IF Len(parts) > 0
    THEN Monomial_fmt(Head(parts)) \o JoinParts(Tail(parts))
    ELSE "1"

RECURSIVE JoinInts(_)
JoinInts(rest) ==
    IF Len(rest) = 0 THEN ""
    ELSE ", " \o ToString(Head(rest)) \o JoinInts(Tail(rest))

\* impl Display for Perm
Perm_fmt(p) ==
    "[" \o (IF Len(p) = 0 THEN "" ELSE ToString(Head(p)) \o JoinInts(Tail(p))) \o "]"

\* impl Display for Schubert
Schubert_fmt(p, parts) == "S_" \o Perm_fmt(p) \o " = " \o Schubert_fmt_body(parts)

----------------------------------------------------------------------------
(* State *)

VARIABLES
    pc,      \* position of the running computation
    perm,    \* reduced_dreams: the argument p
    word,    \* reduced_dreams: `reduced` after the reversal
    k,       \* reduced_dreams: number of letters of `reduced` consumed
    res,     \* reduced_dreams: the working set `res`
    parts,   \* Schubert::from_dreams: the monomial list
    text,    \* the rendered Schubert polynomial
    dream,   \* Dream::mitosis / Monomial::from: the receiver
    row,     \* Dream::mitosis: the argument i
    out,     \* Dream::mitosis: the outcome
    mono,    \* Monomial::from: the powers vector
    wq,      \* lex_first_reduced_word: the argument
    wword,   \* lex_first_reduced_word: the returned word
    wk,      \* number of letters of wword multiplied so far
    wprod    \* product of the first wk adjacent transpositions of wword

vars == << pc, perm, word, k, res, parts, text, dream, row, out, mono,
           wq, wword, wk, wprod >>

genVars == << perm, word, k, res, parts, text >>
mitVars == << dream, row, out, mono >>
wordVars == << wq, wword, wk, wprod >>

\* Every valid permutation of length n (the values Perm::new accepts).
Perms(n) == {v \in [1..n -> 0..(n - 1)] : Perm_new_ok(v)}

\* Every dream of dimension n (the values Dream::from_vec builds).
Dreams(n) == {[tiles |-> [inner |-> v, dim |-> n]] : v \in [1..(n * n) -> Tile]}

NoOutcome == [panic |-> FALSE, offspring |-> << >>]

GenIdle ==
    /\ perm = << >> /\ word = << >> /\ k = 0 /\ res = << >>
    /\ parts = << >> /\ text = ""
MitIdle ==
    /\ dream = Dream_long(0) /\ row = 0 /\ out = NoOutcome /\ mono = << >>
WordIdle ==
    /\ wq = << >> /\ wword = << >> /\ wk = 0 /\ wprod = << >>

----------------------------------------------------------------------------
(* The generator: reduced_dreams, then Schubert::from_dreams and Display *)

Init ==
    /\ pc = "start"
    /\ \E n \in 0..MaxN : perm \in Perms(n)
    /\ word = << >> /\ k = 0 /\ res = << >> /\ parts = << >> /\ text = ""
    /\ MitIdle /\ WordIdle

\* reduced_dreams up to and including the first mitosis (lines 129-138).
Begin ==
    /\ pc = "start"
    /\ LET n == Perm_len(perm)
           prod == Perm_mul(perm, Perm_long(n))
           p0p == prod.perm
       IN IF prod.panic \/ lex_first_reduced_word_panics(p0p)
          THEN pc' = "panic" /\ UNCHANGED << word, k, res >>
          ELSE LET reduced == lex_first_reduced_word(p0p)
               IN IF Len(reduced) = 0
                  THEN pc' = "returned" /\ word' = reduced /\ k' = 0 /\ res' = << >>
                  ELSE LET rev == Reverse(reduced)
                           first == IF Dream_long_panics(n)
                                    THEN [panic |-> TRUE, offspring |-> << >>]
                                    ELSE Dream_mitosis(Dream_long(n), rev[1])
                       IN /\ word' = rev
                          /\ IF first.panic
                             THEN pc' = "panic" /\ UNCHANGED << k, res >>
                             ELSE pc' = "fold" /\ k' = 1 /\ res' = first.offspring
    /\ UNCHANGED << perm, parts, text, mitVars, wordVars >>

\* One iteration of `for &i in &reduced[1..]` (lines 139-141).
Fold ==
    /\ pc = "fold"
    /\ k < Len(word)
    /\ LET m == mitosis(res, word[k + 1])
       IN IF m.panic
          THEN pc' = "panic" /\ UNCHANGED << k, res >>
          ELSE pc' = "fold" /\ k' = k + 1 /\ res' = m.offspring
    /\ UNCHANGED << perm, word, parts, text, mitVars, wordVars >>

\* The loop is exhausted and `res` is returned (line 142).
Return ==
    /\ pc = "fold"
    /\ k = Len(word)
    /\ pc' = "returned"
    /\ UNCHANGED << genVars, mitVars, wordVars >>

\* Schubert::from_dreams on the returned dreams, then its Display.
Assemble ==
    /\ pc = "returned"
    /\ parts' = Schubert_from_dreams(res)
    /\ text' = Schubert_fmt(perm, Schubert_from_dreams(res))
    /\ pc' = "shown"
    /\ UNCHANGED << perm, word, k, res, mitVars, wordVars >>

Next == Begin \/ Fold \/ Return \/ Assemble

Spec == Init /\ [][Next]_vars

----------------------------------------------------------------------------
(* Dream::mitosis and Monomial::from on arbitrary tile patterns *)

InitMitosis ==
    /\ pc = "m_start"
    /\ \E n \in 0..MaxDim : dream \in Dreams(n)
    /\ row = 0 /\ out = NoOutcome /\ mono = << >>
    /\ GenIdle /\ WordIdle

\* A call D.mitosis(i) for any row i of the grid, the last one included.
CallMitosis ==
    /\ pc = "m_start"
    /\ \E i \in 0..(Dream_dim(dream) - 1) :
          /\ row' = i
          /\ out' = Dream_mitosis(dream, i)
    /\ pc' = "m_done"
    /\ UNCHANGED << dream, mono, genVars, wordVars >>

\* A call Monomial::from(&D).
CallMonomial ==
    /\ pc = "m_start"
    /\ mono' = Monomial_from(dream)
    /\ pc' = "mono_done"
    /\ UNCHANGED << dream, row, out, genVars, wordVars >>

NextMitosis == CallMitosis \/ CallMonomial

SpecMitosis == InitMitosis /\ [][NextMitosis]_vars

----------------------------------------------------------------------------
(* lex_first_reduced_word, and the product of the transpositions it names *)

InitWord ==
    /\ pc = "w_start"
    /\ \E n \in 0..MaxN : wq \in Perms(n)
    /\ wword = << >> /\ wk = 0 /\ wprod = << >>
    /\ GenIdle /\ MitIdle

\* The call lex_first_reduced_word(q); the product starts at the identity.
DeriveWord ==
    /\ pc = "w_start"
    /\ IF lex_first_reduced_word_panics(wq)
       THEN pc' = "panic" /\ UNCHANGED << wword, wprod >>
       ELSE /\ pc' = "w_apply"
            /\ wword' = lex_first_reduced_word(wq)
            /\ wprod' = [j \in 1..Perm_len(wq) |-> j - 1]
    /\ UNCHANGED << wq, wk, genVars, mitVars >>

\* Letter l = wword[wk + 1] swaps the entries at positions l and l + 1.
ApplyLetter ==
    /\ pc = "w_apply"
    /\ wk < Len(wword)
    /\ LET l == wword[wk + 1]
       IN wprod' = [wprod EXCEPT ![l + 1] = wprod[l + 2], ![l + 2] = wprod[l + 1]]
    /\ wk' = wk + 1
    /\ UNCHANGED << pc, wq, wword, genVars, mitVars >>

NextWord == DeriveWord \/ ApplyLetter

SpecWord == InitWord /\ [][NextWord]_vars

----------------------------------------------------------------------------
(* Reference notions used to state the properties *)

\* Number of Cross tiles in a dream.
CrossCount(D) ==
    Cardinality({c \in 1..Len(D.tiles.inner) : D.tiles.inner[c] = Cross})

\* Number of Cross tiles in row i of a dream.
RowCrossCount(D, i) ==
    Cardinality({j \in 0..(Dream_dim(D) - 1) : Dream_index(D, i, j) = Cross})

\* Coxeter length: the sum of the Lehmer code.
CoxeterLength(p) == SumSeq(Perm_lehmer(p))

IdentityPerm(n) == [j \in 1..n |-> j - 1]
ReversalPerm(n) == [j \in 1..n |-> n - j]
\* The composition a(b(_)) of two permutations of one length.
ComposePerm(a, b) == [j \in 1..Len(a) |-> a[b[j] + 1]]
InversePerm(p) == [j \in 1..Len(p) |-> (CHOOSE a \in 1..Len(p) : p[a] = j - 1) - 1]

\* The pipe that is at cell (i, j), heading east or north: it goes straight
\* through a Cross and turns at an Elbow; the result is the column at which
\* it leaves through the top edge, or -1 if it leaves through the right edge.
RECURSIVE PipeWalk(_, _, _, _)
PipeWalk(D, i, j, east) ==
    IF i < 0 THEN j
    ELSE IF j >= Dream_dim(D) THEN -1
    ELSE LET e2 == IF Dream_index(D, i, j) = Cross THEN east ELSE ~east
         IN IF e2 THEN PipeWalk(D, i, j + 1, TRUE) ELSE PipeWalk(D, i - 1, j, FALSE)

\* D is a reduced pipe dream of p: crosses only above the antidiagonal, as
\* many as the Coxeter length, and the pipe entering row r leaves at column p(r).
IsReducedPipeDream(D, p) ==
    LET n == Len(p)
    IN /\ Dream_dim(D) = n
       /\ Len(D.tiles.inner) = n * n
       /\ \A i, j \in 0..(n - 1) : Dream_index(D, i, j) = Cross => i + j < n - 1
       /\ CrossCount(D) = CoxeterLength(p)
       /\ \A r \in 0..(n - 1) : PipeWalk(D, r, 0, TRUE) = p[r + 1]

\* The grid of dimension n whose Cross tiles are exactly the cells of S.
GridOf(n, S) ==
    [tiles |-> [inner |-> [c \in 1..(n * n) |->
                    IF << (c - 1) \div n, (c - 1) % n >> \in S THEN Cross ELSE Elbow],
                dim |-> n]]

\* Every grid of dimension n with m Cross tiles, all above the antidiagonal.
TriangleGrids(n, m) ==
    LET cells == {c \in (0..(n - 1)) \X (0..(n - 1)) : c[1] + c[2] < n - 1}
    IN {GridOf(n, S) : S \in {T \in SUBSET cells : Cardinality(T) = m}}

Returned == pc \in {"returned", "shown"}

----------------------------------------------------------------------------
(* Properties of the generator *)

\* C1: every dream returned by the generator for p has as many Cross tiles
\* as the sum of p's Lehmer code, and after the k-th mitosis step every dream
\* of the working set has n(n-1)/2 - k Cross tiles.
C1_CrossingCount ==
    /\ Returned =>
          \A x \in 1..Len(res) : CrossCount(res[x]) = SumSeq(Perm_lehmer(perm))
    /\ pc = "fold" =>
          \A x \in 1..Len(res) :
             CrossCount(res[x]) = (Len(perm) * (Len(perm) - 1)) \div 2 - k

C1_Witness ==
    /\ pc = "returned" /\ Len(res) >= 2 /\ k >= 2
    /\ SumSeq(Perm_lehmer(perm)) >= 2

\* C2: for every permutation other than the longest one, the returned dreams
\* are exactly the reduced pipe dreams of p: each returned grid is one, and
\* each reduced pipe dream of p is returned.
C2_ExactlyReducedDreams ==
    (pc = "returned" /\ perm # ReversalPerm(Len(perm))) =>
        /\ \A x \in 1..Len(res) : IsReducedPipeDream(res[x], perm)
        /\ \A D \in TriangleGrids(Len(perm), CoxeterLength(perm)) :
              IsReducedPipeDream(D, perm) => \E x \in 1..Len(res) : res[x] = D

C2_Witness ==
    /\ pc = "returned" /\ perm = << 0, 2, 1 >>
    /\ Len(res) = 2
    /\ \A x \in 1..Len(res) : IsReducedPipeDream(res[x], perm)

\* C3: for the identity of length n >= 2 the generator returns exactly one
\* dream, all of whose tiles are Elbow; Schubert::from_dreams gives an empty
\* monomial list and the polynomial is rendered as the literal 1.
C3_IdentityCase ==
    (Len(perm) >= 2 /\ perm = IdentityPerm(Len(perm))) =>
        /\ Returned =>
              /\ Len(res) = 1
              /\ CrossCount(res[1]) = 0
              /\ \A c \in 1..Len(res[1].tiles.inner) : res[1].tiles.inner[c] = Elbow
        /\ pc = "shown" =>
              /\ parts = << >>
              /\ text = "S_" \o Perm_fmt(perm) \o " = 1"

C3_Witness ==
    /\ pc = "shown" /\ perm = << 0, 1, 2 >>
    /\ Len(res) = 1 /\ text = "S_[0, 1, 2] = 1"

\* C4: for the longest permutation the composed permutation is the identity,
\* its reduced word is empty and the generator leaves through the early exit
\* with no dream; the early exit (a return with no letter consumed) is taken
\* for no other permutation.
C4_LongestEarlyExit ==
    /\ perm = ReversalPerm(Len(perm)) =>
          /\ ~Perm_mul(perm, Perm_long(Perm_len(perm))).panic
          /\ Perm_mul(perm, Perm_long(Perm_len(perm))).perm = IdentityPerm(Len(perm))
          /\ lex_first_reduced_word(Perm_mul(perm, Perm_long(Perm_len(perm))).perm) = << >>
          /\ pc \in {"start", "returned", "shown"}
          /\ Returned => (res = << >> /\ k = 0)
    /\ (Returned /\ k = 0) => perm = ReversalPerm(Len(perm))

C4_Witness ==
    /\ pc = "returned" /\ perm = << 1, 0 >> /\ res = << >> /\ k = 0

\* C7: the generator never fails: no subtraction i - ci underflows, every
\* letter l given to mitosis satisfies l + 1 < n, and no tile access of
\* start, mitosis or Dream::long is out of range.
C7_GeneratorTotal ==
    /\ pc # "panic"
    /\ ~Perm_mul(perm, Perm_long(Perm_len(perm))).panic
    /\ LET q == Perm_mul(perm, Perm_long(Perm_len(perm))).perm
           rc == RevCode(Perm_lehmer(q))
       IN /\ \A i \in 0..(Len(rc) - 1) : rc[i + 1] <= i
          /\ \A x \in 1..Len(lex_first_reduced_word(q)) :
                /\ lex_first_reduced_word(q)[x] >= 0
                /\ lex_first_reduced_word(q)[x] + 1 < Len(perm)
    /\ ~Dream_long_panics(Len(perm))
    /\ pc = "fold" =>
          /\ \A x \in 1..Len(word) : word[x] >= 0 /\ word[x] + 1 < Len(perm)
          /\ k < Len(word) =>
                \A x \in 1..Len(res) : ~Dream_mitosis_panics(res[x], word[k + 1])

C7_Witness ==
    /\ pc = "returned" /\ Len(word) >= 3 /\ k = Len(word) /\ Len(res) >= 1

\* C10: the working set never holds two equal grids, at any step of the fold
\* and on return; hence each monomial occurs in the Schubert list as often as
\* there are distinct returned dreams with that monomial.
C10_NoDuplicateDreams ==
    /\ pc \in {"fold", "returned", "shown"} =>
          \A a, b \in 1..Len(res) : res[a] = res[b] => a = b
    /\ pc = "shown" =>
          \A x \in 1..Len(parts) :
             Cardinality({y \in 1..Len(parts) : parts[y] = parts[x]})
               = Cardinality({res[y] : y \in {z \in 1..Len(res) :
                                                Monomial_from(res[z]) = parts[x]}})

C10_Witness ==
    /\ pc = "shown" /\ Len(res) >= 3 /\ Len(parts) = Len(res)
    /\ \E a, b \in 1..Len(res) : a # b /\ res[a] # res[b]

----------------------------------------------------------------------------
(* Properties of Dream::mitosis and Monomial::from on arbitrary grids *)

\* The columns the mitosis operator is documented to branch on.
LadderColumns(D, i) ==
    {p \in 0..(Dream_dim(D) - 1) :
        p < Dream_start(D, i) /\ Dream_index(D, i + 1, p) # Cross}

\* The tile at (a, b) of the child documented for ladder position p.
ChildTile(D, i, p, a, b) ==
    LET pushed == b < p /\ Dream_index(D, i, b) = Cross
                        /\ Dream_index(D, i + 1, b) = Elbow
    IN IF a = i /\ b = p THEN Elbow
       ELSE IF a = i /\ pushed THEN Elbow
       ELSE IF a = i + 1 /\ pushed THEN Cross
       ELSE Dream_index(D, a, b)

\* C5: a call of mitosis on the last row, i = n - 1, aborts; it never
\* returns normally.
C5_LastRowAborts ==
    (pc = "m_done" /\ row = Dream_dim(dream) - 1) => out.panic

\* C6: the monomial of a dream lists, in strictly ascending row order,
\* exactly the rows holding a Cross, each with its Cross count, which is
\* positive; the exponents sum to the number of Cross tiles.
C6_MonomialExtraction ==
    pc = "mono_done" =>
        /\ \A x \in 1..Len(mono) :
              /\ mono[x][1] \in 0..(Dream_dim(dream) - 1)
              /\ mono[x][2] = RowCrossCount(dream, mono[x][1])
              /\ mono[x][2] > 0
        /\ \A x, y \in 1..Len(mono) : x < y => mono[x][1] < mono[y][1]
        /\ \A i \in 0..(Dream_dim(dream) - 1) :
              RowCrossCount(dream, i) > 0 => \E x \in 1..Len(mono) : mono[x][1] = i
        /\ SumSeq([x \in 1..Len(mono) |-> mono[x][2]]) = CrossCount(dream)

C6_Witness ==
    /\ pc = "mono_done" /\ Len(mono) = 2
    /\ mono[1][1] = 0 /\ mono[1][2] = 2 /\ mono[2][1] = 2
    /\ RowCrossCount(dream, 1) = 0

\* C8: for a row i with i + 1 < n, mitosis returns one child per ladder
\* column p (p < start(i), tile (i+1, p) not Cross), in increasing order of
\* p; the child has the dimension of D and differs from D only in that
\* (i, p) is Elbow and each column j < p with (i, j) Cross and (i+1, j) Elbow
\* has the two tiles swapped.
C8_MitosisResult ==
    (pc = "m_done" /\ row + 1 < Dream_dim(dream)) =>
        /\ ~out.panic
        /\ Len(out.offspring) = Cardinality(LadderColumns(dream, row))
        /\ \A p \in LadderColumns(dream, row) :
              LET x == 1 + Cardinality({c \in LadderColumns(dream, row) : c < p})
                  child == out.offspring[x]
              IN /\ Dream_dim(child) = Dream_dim(dream)
                 /\ Len(child.tiles.inner) = Len(dream.tiles.inner)
                 /\ \A a, b \in 0..(Dream_dim(dream) - 1) :
                       Dream_index(child, a, b) = ChildTile(dream, row, p, a, b)

C8_Witness ==
    /\ pc = "m_done" /\ row + 1 < Dream_dim(dream)
    /\ Len(out.offspring) = 2
    /\ \E j \in 0..(Dream_dim(dream) - 1) :
          /\ Dream_index(dream, row, j) = Cross
          /\ Dream_index(out.offspring[2], row, j) = Elbow
          /\ Dream_index(dream, row + 1, j) = Elbow
          /\ Dream_index(out.offspring[2], row + 1, j) = Cross

----------------------------------------------------------------------------
(* Properties of lex_first_reduced_word *)

WordDone == pc = "w_apply" /\ wk = Len(wword)

\* C9 as stated: the word has the Coxeter length of q, its letters are in
\* 0..n-2, it is empty for the identity, and the product of its adjacent
\* transpositions, applied left to right, is q.
C9_WordOfQ ==
    WordDone =>
        /\ Len(wword) = SumSeq(Perm_lehmer(wq))
        /\ \A x \in 1..Len(wword) : wword[x] \in 0..(Len(wq) - 2)
        /\ wq = IdentityPerm(Len(wq)) => wword = << >>
        /\ wprod = wq

\* C9 amended: the word has the Coxeter length of q, its letters are in
\* 0..n-2, it is empty for the identity, and the product of its adjacent
\* transpositions, applied left to right, is w0 * q^-1 * w0, the inverse of
\* q conjugated by the longest permutation.
C9_WordOfConjugateInverse ==
    WordDone =>
        /\ Len(wword) = SumSeq(Perm_lehmer(wq))
        /\ \A x \in 1..Len(wword) : wword[x] \in 0..(Len(wq) - 2)
        /\ wq = IdentityPerm(Len(wq)) => wword = << >>
        /\ wprod = ComposePerm(
                      ComposePerm(ReversalPerm(Len(wq)), InversePerm(wq)),
                      ReversalPerm(Len(wq)))

C9_Witness ==
    /\ WordDone /\ wq = << 0, 2, 1 >>
    /\ wword = << 0 >> /\ wprod = << 1, 0, 2 >>

====
